---- MODULE Spec2Model ----
(***************************************************************************)
(* A model of scripts/optical_scenes.py: the retry-download helper         *)
(* download_product, the two catalog adapters get_sentinel and             *)
(* get_landsat, the event locator parse_shp and the orchestrator main      *)
(* with its command-line entry point.                                      *)
(*                                                                         *)
(* SpecRetry runs one call of download_product against a download          *)
(* function whose behaviour on each invocation is scripted.                *)
(* Spec runs one invocation of the program (the command line, or a direct  *)
(* call of main) against an environment (shapefile, configuration,         *)
(* provider answers, JSON sidecar) chosen from small sets.                 *)
(***************************************************************************)
EXTENDS Integers, Sequences, FiniteSets, TLC

VARIABLES
    \* ---- download_product ----
    num_retries,   \* parameter num_retries
    retry_wait,    \* parameter retry_wait
    script,        \* what api.download does on its 1st, 2nd, ... invocation
    i,             \* the loop variable of `for i in range(num_retries)`
    calls,         \* number of invocations of api.download so far
    trace,         \* the calls and sleeps of the helper, in order
    dpLog,         \* the messages printed by the helper, in order
    retval,        \* the value returned by the helper ("unset" before return)
    slept,         \* seconds spent in time.sleep so far
    pcDP,          \* position in download_product
    \* ---- the program run: command line, main, parse_shp, adapters ----
    argEvent,      \* -id / event_id: an id, or "absent" (None)
    argSat,        \* -s / satellite: a name, or "absent" (None)
    cfg,           \* the Config object: toggles and per-provider delta days
    shp,           \* selected_events.shp: id -> [ig_date, last_date]
    pc,            \* position in the program
    exitStatus,    \* exit status of the process (-1 while it runs)
    raisedAt,      \* the step whose exception ended the run ("none" if none)
    log,           \* messages printed, in order
    event,         \* what parse_shp returned: [start_date, end_date]
    adapterCalls,  \* the adapter invocations made by main, with their arguments
    sessions,      \* provider session -> "none" | "open" | "closed"
    scenes,        \* the catalog query's result (products / scenes)
    queried,       \* the catalog query has returned
    sceneIdx,      \* index of the next scene in get_landsat's download loop
    dirs,          \* output directories that exist
    created,       \* output directories created by os.mkdir in this run
    files,         \* files written by this run (footprints, per-scene geojson)
    dlCalls,       \* download calls made to the providers, in order
    jsonDoc,       \* data['features'] of the JSON sidecar (<< >>: no file, no feature)
    jsonBefore,    \* jsonDoc as it was when the run started
    steps,         \* the adapter steps begun, in order
    \* ---- the footprint builders get_footprint_poly and get_bbox ----
    fpArgs,        \* the four bounds given to both builders, in tenths of a degree
    wkt,           \* what get_footprint_poly returned, as characters (<< >> before)
    bbox           \* what get_bbox returned (<< >> before)

dpVars == <<num_retries, retry_wait, script, i, calls, trace, dpLog, retval, slept, pcDP>>

inVars == <<argEvent, argSat, cfg, shp, jsonBefore>>
runVars == <<pc, exitStatus, raisedAt, log, event, adapterCalls>>
adVars == <<sessions, scenes, queried, sceneIdx, dirs, created, files, dlCalls, jsonDoc, steps>>
mainVars == <<inVars, runVars, adVars>>

fpVars == <<fpArgs, wkt, bbox>>

vars == <<dpVars, mainVars, fpVars>>

----------------------------------------------------------------------------
\* Bounds of the model.
MaxRetries == 3

\* What one invocation of api.download can do: return, raise LTATriggered,
\* raise anything else.
Outcomes == {"ok", "triggered", "error"}

NumRetriesValues == (0 - 1) .. MaxRetries
RetryWaitValues == {60, 120}
Scripts == [1 .. (MaxRetries + 1) -> Outcomes]

----------------------------------------------------------------------------
\* download_product (optical_scenes.py:19-58)

\* range(num_retries) still has an element for loop index idx
MutRangeHasNext(idx, n) == idx <= n
RangeHasNext(idx, n) == idx < n

\* where control goes after a successful api.download: `return`
MutAfterSuccess == "sleep"
AfterSuccess == "returned"

\* the value of a bare `return` and of falling off the end of the function
ReturnValue(succeeded) == "None"

\* the exceptions of api.download that `except LTATriggered` catches
MutCaught(o) == o # "ok"
Caught(o) == o = "triggered"

\* line 57: time.sleep runs after every caught signal, whatever the loop index
MutSleepsAfter(idx, n) == idx + 1 < n
SleepsAfter(idx, n) == TRUE

\* the message printed after the loop ran out
MutExhaustedMsg == "success"
ExhaustedMsg == "failed"

\* the program run before it starts, and as SpecRetry leaves it
NoSessions == [n \in {"sentinel_api", "landsat_api", "earthexplorer"} |-> "none"]

\* the footprint builders before they are called
IdleFootprint ==
    /\ fpArgs = [minlon |-> 0, minlat |-> 0, maxlon |-> 0, maxlat |-> 0]
    /\ wkt = << >>
    /\ bbox = << >>

IdleMain ==
    /\ argEvent = "absent"
    /\ argSat = "absent"
    /\ cfg = [download_scenes |-> FALSE, save_footprints |-> FALSE, update_json |-> FALSE,
              delta_days_sentinel |-> 0, delta_days_landsat |-> 0]
    /\ shp = << >>
    /\ pc = "idle"
    /\ exitStatus = 0 - 1
    /\ raisedAt = "none"
    /\ log = << >>
    /\ event = [start_date |-> 0, end_date |-> 0]
    /\ adapterCalls = << >>
    /\ sessions = NoSessions
    /\ scenes = << >>
    /\ queried = FALSE
    /\ sceneIdx = 0
    /\ dirs = {}
    /\ created = {}
    /\ files = {}
    /\ dlCalls = << >>
    /\ jsonDoc = << >>
    /\ jsonBefore = << >>
    /\ steps = << >>

InitDP ==
    /\ IdleMain
    /\ IdleFootprint
    /\ num_retries \in NumRetriesValues
    /\ retry_wait \in RetryWaitValues
    /\ script \in Scripts
    /\ i = 0
    /\ calls = 0
    /\ trace = << >>
    /\ dpLog = << >>
    /\ retval = "unset"
    /\ slept = 0
    /\ pcDP = "for"

\* lines 48-56: one pass through the try block
download_product_try ==
    /\ pcDP = "for"
    /\ RangeHasNext(i, num_retries)
    /\ calls' = calls + 1
    /\ trace' = Append(trace, "download")
    /\ LET o == script[calls + 1] IN
         CASE o = "ok" ->
                /\ dpLog' = Append(dpLog, "success")
                /\ pcDP' = AfterSuccess
                /\ retval' = IF AfterSuccess = "returned" THEN ReturnValue(TRUE) ELSE retval
           [] Caught(o) ->
                /\ dpLog' = Append(dpLog, "retrying")
                /\ pcDP' = "sleep"
                /\ UNCHANGED retval
           [] OTHER ->
                /\ pcDP' = "raised"
                /\ UNCHANGED <<dpLog, retval>>
    /\ UNCHANGED <<num_retries, retry_wait, script, i, slept>>
    /\ UNCHANGED <<mainVars, fpVars>>

\* line 57: time.sleep(retry_wait), then the next loop index
download_product_sleep ==
    /\ pcDP = "sleep"
    /\ IF SleepsAfter(i, num_retries)
         THEN /\ trace' = Append(trace, "sleep")
              /\ slept' = slept + retry_wait
         ELSE UNCHANGED <<trace, slept>>
    /\ i' = i + 1
    /\ pcDP' = "for"
    /\ UNCHANGED <<num_retries, retry_wait, script, calls, dpLog, retval>>
    /\ UNCHANGED <<mainVars, fpVars>>

\* line 58: the loop is exhausted
download_product_exhausted ==
    /\ pcDP = "for"
    /\ ~RangeHasNext(i, num_retries)
    /\ dpLog' = Append(dpLog, ExhaustedMsg)
    /\ retval' = ReturnValue(FALSE)
    /\ pcDP' = "returned"
    /\ UNCHANGED <<num_retries, retry_wait, script, i, calls, trace, slept>>
    /\ UNCHANGED <<mainVars, fpVars>>

NextDP ==
    \/ download_product_try
    \/ download_product_sleep
    \/ download_product_exhausted

SpecRetry == InitDP /\ [][NextDP]_vars

----------------------------------------------------------------------------
\* Properties of download_product, checked under SpecRetry.

Sleeps == Cardinality({j \in DOMAIN trace : trace[j] = "sleep"})
Succeeded == \E j \in 1 .. calls : script[j] = "ok"
LastLog == IF dpLog = << >> THEN "none" ELSE dpLog[Len(dpLog)]

\* the download function signals "triggered" on its first k invocations and
\* succeeds on invocation k+1
TriggeredThenOk(k) ==
    /\ \A j \in 1 .. k : script[j] = "triggered"
    /\ script[k + 1] = "ok"

\* the download function signals "triggered" on each of its first n invocations
AlwaysTriggered(n) == \A j \in 1 .. n : script[j] = "triggered"

\* C1: for every k with 0 <= k < num_retries, when the download function
\* signals "triggered" k times and then succeeds, the helper never invokes it
\* more than k+1 times, never raises, and once it has returned it has invoked
\* it exactly k+1 times, has printed the success message last, has slept
\* exactly k times, and its last step was the download, not a sleep.
C1_RetryThenSuccess ==
    \A k \in 0 .. MaxRetries :
        (k < num_retries /\ TriggeredThenOk(k)) =>
            /\ calls <= k + 1
            /\ pcDP \in {"for", "sleep", "returned"}
            /\ (pcDP = "returned" =>
                    /\ calls = k + 1
                    /\ LastLog = "success"
                    /\ Sleeps = k
                    /\ trace[Len(trace)] = "download")

C1_Witness ==
    /\ pcDP = "returned"
    /\ num_retries = MaxRetries
    /\ TriggeredThenOk(2)
    /\ calls = 3

C3_ReturnsSuccessBoolean ==
    pcDP = "returned" => retval = (IF Succeeded THEN "True" ELSE "False")

\* C3, amended: the helper returns None on both outcomes; the outcome shows
\* only in the last message printed, the success message exactly when some
\* invocation succeeded and the failure message exactly when every allowed
\* attempt signalled "triggered".
C3_ReturnsNoneOutcomeLogged ==
    pcDP = "returned" =>
        /\ retval = "None"
        /\ (Succeeded <=> LastLog = "success")
        /\ (~Succeeded <=> LastLog = "failed")
        /\ (~Succeeded => AlwaysTriggered(calls))

C3_Witness ==
    /\ pcDP = "returned"
    /\ ~Succeeded
    /\ calls >= 2
    /\ retval = "None"
    /\ LastLog = "failed"

----------------------------------------------------------------------------
\* The program run: __main__, main, parse_shp, get_sentinel, get_landsat.

\* Bounds of the model.
MaxScenes == 2
MaxDay == 1
MaxDelta == 1

Days == 0 .. MaxDay
DeltaDays == (0 - 1) .. MaxDelta
ShpIds == {"42"}
ArgEvents == {"42", "99", "absent"}
ArgSats == {"sentinel", "landsat", "modis", "absent"}
Shapefiles == [ShpIds -> [ig_date : Days, last_date : Days]]
Configs == [download_scenes : BOOLEAN, save_footprints : BOOLEAN, update_json : BOOLEAN,
            delta_days_sentinel : DeltaDays, delta_days_landsat : DeltaDays]
\* what a catalog query can return: the first n scenes of the catalog
QueryResults == {[j \in 1 .. n |-> j] : n \in 0 .. MaxScenes}

\* the element built for one product in get_sentinel's metadata sync; each
\* field holds the name of the product_info field it is copied from
SentinelElement(p) ==
    [Scene_ID |-> <<"title", p>>, acquisition_date |-> <<"date", p>>,
     ingestion_date |-> <<"Ingestion Date", p>>, URL |-> <<"url", p>>,
     Quicklook_URL |-> <<"quicklook_url", p>>, footprint |-> <<"footprint", p>>]

\* the element built for one scene in get_landsat's metadata sync
LandsatElement(p) ==
    [Scene_ID |-> <<"display_id", p>>, acquisition_date |-> <<"acquisition_date", p>>,
     ingestion_date |-> <<"date_product_generated", p>>, data_type |-> <<"data_type", p>>,
     footprint |-> <<"spatial_bounds", p>>, land_cloud_cover |-> <<"land_cloud_cover", p>>,
     scene_cloud_cover |-> <<"scene_cloud_cover", p>>]

\* features[0] of a sidecar no sync has touched, and of one both adapters
\* synced in an earlier run (scene 0 is not in the catalog any more)
DocFresh == [properties |-> "props", geometry |-> "geom"]
DocSynced == [properties |-> "props", geometry |-> "geom",
              sentinel_senes |-> <<SentinelElement(0)>>,
              landsat_senes |-> <<LandsatElement(0)>>]
\* data['features'] of the file at json_file_name; empty when there is no file
JsonFiles == {<< >>, <<DocFresh>>, <<DocSynced>>}

\* str(fid): None prints as "None"
Str(a) == IF a = "absent" THEN "None" ELSE a

\* the exit status of sys.exit(arg): None is 0, any other non-integer is 1
SysExit(arg) == IF arg = "None" THEN 0 ELSE 1

\* argparse accepts an absent -s (default None) and the listed choices
ArgparseAccepts(sat) == sat \in {"sentinel", "landsat", "absent"}

\* the truth value of a query result: `if products:` / `if scenes:`
MutTruthy(r) == TRUE
Truthy(r) == Len(r) > 0

\* start_date - timedelta(days=time_delta), end_date + timedelta(days=time_delta)
MutAdjustedStart(d, delta) == d + delta
AdjustedStart(d, delta) == d - delta
AdjustedEnd(d, delta) == d + delta

\* dict assignment d[key] = val
MutSetItem(d, key, val) == [x \in {key} |-> val]
SetItem(d, key, val) == [x \in (DOMAIN d) \cup {key} |-> IF x = key THEN val ELSE d[x]]

\* the download calls get_sentinel makes for the products found:
\* one api.download_all(products)
MutSentinelDownloadCalls(products) ==
    [j \in 1 .. Len(products) |-> [via |-> "download_product", scenes |-> <<products[j]>>]]
SentinelDownloadCalls(products) == << [via |-> "download_all", scenes |-> products] >>

Init ==
    /\ IdleFootprint
    /\ num_retries = 10
    /\ retry_wait = 120
    /\ script = << >>
    /\ i = 0
    /\ calls = 0
    /\ trace = << >>
    /\ dpLog = << >>
    /\ retval = "unset"
    /\ slept = 0
    /\ pcDP = "idle"
    /\ argEvent \in ArgEvents
    /\ argSat \in ArgSats
    /\ cfg \in Configs
    /\ shp \in Shapefiles
    /\ pc = "cli"
    /\ exitStatus = 0 - 1
    /\ raisedAt = "none"
    /\ log = << >>
    /\ event = [start_date |-> 0, end_date |-> 0]
    /\ adapterCalls = << >>
    /\ sessions = NoSessions
    /\ scenes = << >>
    /\ queried = FALSE
    /\ sceneIdx = 0
    /\ dirs \in {{}, {"Fire_events/event"}}
    /\ created = {}
    /\ files = {}
    /\ dlCalls = << >>
    /\ jsonDoc \in JsonFiles
    /\ jsonBefore = jsonDoc
    /\ steps = << >>

\* an exception nothing catches: traceback, exit status 1
Raise(step) ==
    /\ pc' = "exit"
    /\ exitStatus' = 1
    /\ raisedAt' = step
    /\ log' = Append(log, "traceback")
    /\ UNCHANGED <<event, adapterCalls>>

\* control moves on inside an adapter, printing msgs
Goto(next, msgs) ==
    /\ pc' = next
    /\ log' = log \o msgs
    /\ UNCHANGED <<exitStatus, raisedAt, event, adapterCalls>>

\* lines 579-584: parse the command line, call main
cli_parse_args ==
    /\ pc = "cli"
    /\ IF ArgparseAccepts(argSat)
         THEN /\ pc' = "main"
              /\ UNCHANGED <<exitStatus, log>>
         ELSE /\ pc' = "exit"
              /\ exitStatus' = 2
              /\ log' = Append(log, "argparse: invalid choice")
    /\ UNCHANGED <<raisedAt, event, adapterCalls>>
    /\ UNCHANGED <<fpVars, dpVars, inVars, adVars>>

\* lines 527-534 with parse_shp, lines 485-494
main_parse_shp ==
    /\ pc = "main"
    /\ IF Str(argEvent) \notin DOMAIN shp
         THEN /\ log' = Append(log, "invalid fire ID")
              /\ pc' = "exit"
              /\ exitStatus' = SysExit("None")
              /\ UNCHANGED event
         ELSE /\ event' = [start_date |-> shp[Str(argEvent)].ig_date,
                           end_date |-> shp[Str(argEvent)].last_date]
              /\ log' = Append(log, "searching for images")
              /\ pc' = "dispatch"
              /\ UNCHANGED exitStatus
    /\ UNCHANGED <<raisedAt, adapterCalls>>
    /\ UNCHANGED <<fpVars, dpVars, inVars, adVars>>

\* lines 543-576: choose the adapter, compute its date window, call it
main_dispatch ==
    /\ pc = "dispatch"
    /\ CASE argSat = "sentinel" ->
              /\ adapterCalls' = Append(adapterCalls,
                    [adapter |-> "get_sentinel", footprint |-> "polygon.wkt",
                     start_date |-> AdjustedStart(event.start_date, cfg.delta_days_sentinel),
                     end_date |-> AdjustedEnd(event.end_date, cfg.delta_days_sentinel)])
              /\ log' = Append(log, "window")
              /\ pc' = "s_init"
              /\ UNCHANGED exitStatus
         [] argSat = "landsat" ->
              /\ adapterCalls' = Append(adapterCalls,
                    [adapter |-> "get_landsat", footprint |-> "polygon.bounds",
                     start_date |-> AdjustedStart(event.start_date, cfg.delta_days_landsat),
                     end_date |-> AdjustedEnd(event.end_date, cfg.delta_days_landsat)])
              /\ log' = Append(log, "window")
              /\ pc' = "l_init"
              /\ UNCHANGED exitStatus
         [] OTHER ->
              /\ log' = Append(log, "wrong satellite")
              /\ pc' = "exit"
              /\ exitStatus' = SysExit("None")
              /\ UNCHANGED adapterCalls
    /\ UNCHANGED <<raisedAt, event>>
    /\ UNCHANGED <<fpVars, dpVars, inVars, adVars>>

\* main returns from the adapter and the interpreter exits
main_return ==
    /\ pc \in {"s_return", "l_return"}
    /\ pc' = "exit"
    /\ exitStatus' = 0
    /\ UNCHANGED <<raisedAt, log, event, adapterCalls>>
    /\ UNCHANGED <<fpVars, dpVars, inVars, adVars>>

----------------------------------------------------------------------------
\* get_sentinel (optical_scenes.py:104-196)

\* lines 104-108: SentinelAPI(...) builds the client and its HTTP session
get_sentinel_init ==
    /\ pc = "s_init"
    /\ sessions' = [sessions EXCEPT !["sentinel_api"] = "open"]
    /\ steps' = Append(steps, "auth")
    /\ Goto("s_query", <<"searching for Sentinel images">>)
    /\ UNCHANGED <<scenes, queried, sceneIdx, dirs, created, files, dlCalls, jsonDoc>>
    /\ UNCHANGED <<fpVars, dpVars, inVars>>

\* lines 112-118: api.query returns the products or raises
get_sentinel_query ==
    /\ pc = "s_query"
    /\ steps' = Append(steps, "query")
    /\ \/ \E r \in QueryResults :
             /\ scenes' = r
             /\ queried' = TRUE
             /\ Goto("s_if_products", << >>)
       \/ /\ Raise("query")
          /\ UNCHANGED <<scenes, queried>>
    /\ UNCHANGED <<sessions, sceneIdx, dirs, created, files, dlCalls, jsonDoc>>
    /\ UNCHANGED <<fpVars, dpVars, inVars>>

\* lines 122-131 and 195-196: `if products:` creates the output directories
\* that do not exist yet, `else:` prints that nothing was found
get_sentinel_if_products ==
    /\ pc = "s_if_products"
    /\ IF Truthy(scenes)
         THEN /\ created' = created \cup ({"Fire_events/event", "Fire_events/event/Sentinel"} \ dirs)
              /\ dirs' = dirs \cup {"Fire_events/event", "Fire_events/event/Sentinel"}
              /\ Goto("s_footprints", <<"Sentinel products found">>)
         ELSE /\ Goto("s_return", <<"No Sentinel-2 scenes found">>)
              /\ UNCHANGED <<dirs, created>>
    /\ UNCHANGED <<sessions, scenes, queried, sceneIdx, files, dlCalls, jsonDoc, steps>>
    /\ UNCHANGED <<fpVars, dpVars, inVars>>

\* lines 134-138: export the footprints when config.save_footprints
get_sentinel_footprints ==
    /\ pc = "s_footprints"
    /\ IF cfg.save_footprints
         THEN /\ steps' = Append(steps, "export")
              /\ \/ /\ files' = files \cup {"Sentinel/Sentinel_footprints.geojson"}
                    /\ Goto("s_download", <<"Saving Sentinel product footprints">>)
                 \/ /\ Raise("export")
                    /\ UNCHANGED files
         ELSE /\ Goto("s_download", << >>)
              /\ UNCHANGED <<files, steps>>
    /\ UNCHANGED <<sessions, scenes, queried, sceneIdx, dirs, created, dlCalls, jsonDoc>>
    /\ UNCHANGED <<fpVars, dpVars, inVars>>

\* lines 142-152: api.download_all(products) when config.download_scenes
get_sentinel_download ==
    /\ pc = "s_download"
    /\ IF cfg.download_scenes
         THEN /\ steps' = Append(steps, "download")
              /\ dlCalls' = dlCalls \o SentinelDownloadCalls(scenes)
              /\ \/ Goto("s_json", <<"Downloading Sentinel products">>)
                 \/ Raise("download")
         ELSE /\ Goto("s_json", << >>)
              /\ UNCHANGED <<dlCalls, steps>>
    /\ UNCHANGED <<sessions, scenes, queried, sceneIdx, dirs, created, files, jsonDoc>>
    /\ UNCHANGED <<fpVars, dpVars, inVars>>

\* lines 170-193: the metadata sync when config.update_json; opening a
\* missing file, indexing an empty features list and api.get_product_odata
\* raise before anything is written
get_sentinel_update_json ==
    /\ pc = "s_json"
    /\ IF cfg.update_json
         THEN /\ steps' = Append(steps, "sync")
              /\ \/ /\ jsonDoc # << >>
                    /\ jsonDoc' = <<SetItem(jsonDoc[1], "sentinel_senes",
                                     [j \in 1 .. Len(scenes) |-> SentinelElement(scenes[j])])>>
                           \o Tail(jsonDoc)
                    /\ Goto("s_return", << >>)
                 \/ /\ Raise("sync")
                    /\ UNCHANGED jsonDoc
         ELSE /\ Goto("s_return", << >>)
              /\ UNCHANGED <<jsonDoc, steps>>
    /\ UNCHANGED <<sessions, scenes, queried, sceneIdx, dirs, created, files, dlCalls>>
    /\ UNCHANGED <<fpVars, dpVars, inVars>>

----------------------------------------------------------------------------
\* get_landsat (optical_scenes.py:231-338)

\* lines 231-234: API(...) logs in, or raises
get_landsat_init ==
    /\ pc = "l_init"
    /\ steps' = Append(steps, "auth")
    /\ \/ /\ sessions' = [sessions EXCEPT !["landsat_api"] = "open"]
          /\ Goto("l_search", <<"searching for Landsat images">>)
       \/ /\ Raise("auth")
          /\ UNCHANGED sessions
    /\ UNCHANGED <<scenes, queried, sceneIdx, dirs, created, files, dlCalls, jsonDoc>>
    /\ UNCHANGED <<fpVars, dpVars, inVars>>

\* lines 239-245: api.search returns the scenes or raises
get_landsat_search ==
    /\ pc = "l_search"
    /\ steps' = Append(steps, "query")
    /\ \/ \E r \in QueryResults :
             /\ scenes' = r
             /\ queried' = TRUE
             /\ Goto("l_if_scenes", << >>)
       \/ /\ Raise("query")
          /\ UNCHANGED <<scenes, queried>>
    /\ UNCHANGED <<sessions, sceneIdx, dirs, created, files, dlCalls, jsonDoc>>
    /\ UNCHANGED <<fpVars, dpVars, inVars>>

\* lines 248-257 and 334-335
get_landsat_if_scenes ==
    /\ pc = "l_if_scenes"
    /\ IF Truthy(scenes)
         THEN /\ created' = created \cup ({"Fire_events/event", "Fire_events/event/Landsat"} \ dirs)
              /\ dirs' = dirs \cup {"Fire_events/event", "Fire_events/event/Landsat"}
              /\ Goto("l_footprints", <<"Landsat products found">>)
         ELSE /\ Goto("l_logout", <<"No Landsat scenes found">>)
              /\ UNCHANGED <<dirs, created>>
    /\ UNCHANGED <<sessions, scenes, queried, sceneIdx, files, dlCalls, jsonDoc, steps>>
    /\ UNCHANGED <<fpVars, dpVars, inVars>>

\* lines 260-275
get_landsat_footprints ==
    /\ pc = "l_footprints"
    /\ IF cfg.save_footprints
         THEN /\ steps' = Append(steps, "export")
              /\ \/ /\ files' = files \cup {"Landsat/Landsat_footprints.geojson"}
                    /\ Goto("l_ee_login", <<"Saving Landsat product footprints">>)
                 \/ /\ Raise("export")
                    /\ UNCHANGED files
         ELSE /\ Goto("l_ee_login", << >>)
              /\ UNCHANGED <<files, steps>>
    /\ UNCHANGED <<sessions, scenes, queried, sceneIdx, dirs, created, dlCalls, jsonDoc>>
    /\ UNCHANGED <<fpVars, dpVars, inVars>>

\* lines 278-280: EarthExplorer(...) logs in when config.download_scenes
get_landsat_ee_login ==
    /\ pc = "l_ee_login"
    /\ IF cfg.download_scenes
         THEN /\ steps' = Append(steps, "download")
              /\ \/ /\ sessions' = [sessions EXCEPT !["earthexplorer"] = "open"]
                    /\ sceneIdx' = 1
                    /\ Goto("l_ee_download", <<"Downloading Landsat products">>)
                 \/ /\ Raise("download")
                    /\ UNCHANGED <<sessions, sceneIdx>>
         ELSE /\ Goto("l_json", << >>)
              /\ UNCHANGED <<sessions, sceneIdx, steps>>
    /\ UNCHANGED <<scenes, queried, dirs, created, files, dlCalls, jsonDoc>>
    /\ UNCHANGED <<fpVars, dpVars, inVars>>

\* lines 296-297: one pass of `for scene in scenes: ee.download(...)`
get_landsat_ee_download ==
    /\ pc = "l_ee_download"
    /\ sceneIdx <= Len(scenes)
    /\ dlCalls' = Append(dlCalls, [via |-> "ee.download", scenes |-> <<scenes[sceneIdx]>>])
    /\ \/ /\ sceneIdx' = sceneIdx + 1
          /\ Goto("l_ee_download", << >>)
       \/ /\ Raise("download")
          /\ UNCHANGED sceneIdx
    /\ UNCHANGED <<sessions, scenes, queried, dirs, created, files, jsonDoc, steps>>
    /\ UNCHANGED <<fpVars, dpVars, inVars>>

\* line 299: ee.logout() after the loop
get_landsat_ee_logout ==
    /\ pc = "l_ee_download"
    /\ sceneIdx > Len(scenes)
    /\ sessions' = [sessions EXCEPT !["earthexplorer"] = "closed"]
    /\ Goto("l_json", << >>)
    /\ UNCHANGED <<scenes, queried, sceneIdx, dirs, created, files, dlCalls, jsonDoc, steps>>
    /\ UNCHANGED <<fpVars, dpVars, inVars>>

\* lines 304-332: the metadata sync when config.update_json, with one
\* geojson file per scene written to the working directory
get_landsat_update_json ==
    /\ pc = "l_json"
    /\ IF cfg.update_json
         THEN /\ steps' = Append(steps, "sync")
              /\ IF jsonDoc # << >>
                   THEN /\ jsonDoc' = <<SetItem(jsonDoc[1], "landsat_senes",
                                         [j \in 1 .. Len(scenes) |-> LandsatElement(scenes[j])])>>
                               \o Tail(jsonDoc)
                        /\ files' = files \cup {<<"event_landsat_product_id.geojson", scenes[j]>> :
                                                   j \in 1 .. Len(scenes)}
                        /\ Goto("l_logout", << >>)
                   ELSE /\ Raise("sync")
                        /\ UNCHANGED <<jsonDoc, files>>
         ELSE /\ Goto("l_logout", << >>)
              /\ UNCHANGED <<jsonDoc, files, steps>>
    /\ UNCHANGED <<sessions, scenes, queried, sceneIdx, dirs, created, dlCalls>>
    /\ UNCHANGED <<fpVars, dpVars, inVars>>

\* where get_landsat goes after api.logout(): the logout is its last statement
MutLandsatAfterLogout == "l_json"
LandsatAfterLogout == "l_return"

\* line 338: api.logout()
get_landsat_logout ==
    /\ pc = "l_logout"
    /\ sessions' = [sessions EXCEPT !["landsat_api"] = "closed"]
    /\ steps' = Append(steps, "logout")
    /\ Goto(LandsatAfterLogout, << >>)
    /\ UNCHANGED <<scenes, queried, sceneIdx, dirs, created, files, dlCalls, jsonDoc>>
    /\ UNCHANGED <<fpVars, dpVars, inVars>>

Next ==
    \/ cli_parse_args
    \/ main_parse_shp
    \/ main_dispatch
    \/ main_return
    \/ get_sentinel_init
    \/ get_sentinel_query
    \/ get_sentinel_if_products
    \/ get_sentinel_footprints
    \/ get_sentinel_download
    \/ get_sentinel_update_json
    \/ get_landsat_init
    \/ get_landsat_search
    \/ get_landsat_if_scenes
    \/ get_landsat_footprints
    \/ get_landsat_ee_login
    \/ get_landsat_ee_download
    \/ get_landsat_ee_logout
    \/ get_landsat_update_json
    \/ get_landsat_logout

Spec == Init /\ [][Next]_vars

----------------------------------------------------------------------------
\* Properties of the program run, checked under Spec.

InSteps(x) == \E j \in DOMAIN steps : steps[j] = x
Logged(m) == \E j \in DOMAIN log : log[j] = m
Range(q) == {q[j] : j \in DOMAIN q}
Exited == pc = "exit"
EventFound == Str(argEvent) \in DOMAIN shp

\* C4, as claimed: when the run has ended, on whatever path, no provider
\* session opened by the adapter is still open.
C4_SessionsClosedOnExit ==
    Exited => \A n \in DOMAIN sessions : sessions[n] # "open"

\* C5: once an adapter's catalog query has returned zero scenes, the adapter
\* has created no output directory, written no file, made no download call,
\* begun no export, download or sync step and left the JSON sidecar as it
\* was, whatever the toggles; after its branch on the result the "no scenes
\* found" message is in the log, and the run ends with exit status 0 and
\* without an exception.
C5_EmptyResultNoOutput ==
    (queried /\ scenes = << >>) =>
        /\ created = {}
        /\ files = {}
        /\ dlCalls = << >>
        /\ jsonDoc = jsonBefore
        /\ ~InSteps("export") /\ ~InSteps("download") /\ ~InSteps("sync")
        /\ (pc \notin {"s_if_products", "l_if_scenes"} =>
                \/ Logged("No Sentinel-2 scenes found")
                \/ Logged("No Landsat scenes found"))
        /\ (Exited => exitStatus = 0 /\ raisedAt = "none")

C5_Witness ==
    /\ Exited
    /\ queried /\ scenes = << >>
    /\ argSat = "landsat"
    /\ cfg.download_scenes /\ cfg.save_footprints /\ cfg.update_json
    /\ dirs = {}
    /\ Logged("No Landsat scenes found")

\* C6, as claimed: when the satellite choice is not "sentinel" or "landsat"
\* (absent included) and the event exists, the run ends having logged an
\* error, invoked no adapter, and with a non-zero exit status.
C6_InvalidSatelliteNonZeroExit ==
    (Exited /\ EventFound /\ argSat \notin {"sentinel", "landsat"}) =>
        /\ exitStatus # 0
        /\ adapterCalls = << >>
        /\ (Logged("wrong satellite") \/ Logged("argparse: invalid choice"))

\* C7, as claimed: when the requested event ID matches no row of the
\* shapefile, the run that reaches parse_shp ends with a non-zero exit
\* status, with no output directory created and no provider authenticated
\* or queried.
C7_UnknownEventNonZeroExit ==
    (Exited /\ argEvent # "absent" /\ ~EventFound /\ ArgparseAccepts(argSat)) =>
        /\ exitStatus # 0
        /\ created = {}
        /\ sessions = NoSessions
        /\ ~queried

\* the window and the buffer of the adapter invocation main made
Window == adapterCalls[1]
Buffer ==
    IF Window.adapter = "get_sentinel" THEN cfg.delta_days_sentinel
                                       ELSE cfg.delta_days_landsat

\* C8, as claimed: for every event main loads and every buffer in the
\* configuration, buffered_start <= native_start <= native_end <= buffered_end.
C8_WindowChain ==
    adapterCalls # << >> =>
        /\ Window.start_date <= event.start_date
        /\ event.start_date <= event.end_date
        /\ event.end_date <= Window.end_date

\* C8, amended: when the buffer is not negative, buffered_start <=
\* native_start and native_end <= buffered_end; when moreover the event's
\* ig_date is not after its last_date, the whole chain holds.
C8_WindowChainForValidInput ==
    adapterCalls # << >> =>
        /\ (Buffer >= 0 =>
                /\ Window.start_date <= event.start_date
                /\ event.end_date <= Window.end_date)
        /\ ((Buffer >= 0 /\ event.start_date <= event.end_date) =>
                /\ Window.start_date <= event.start_date
                /\ event.start_date <= event.end_date
                /\ event.end_date <= Window.end_date
                /\ Window.start_date <= Window.end_date)

C8_Witness ==
    /\ adapterCalls # << >>
    /\ Buffer = MaxDelta
    /\ event.start_date < event.end_date
    /\ Window.start_date < event.start_date
    /\ event.end_date < Window.end_date

\* C9, as claimed: when download_scenes is enabled and the Sentinel query
\* returned scenes, every returned scene is downloaded through
\* download_product, and no error of the download step escapes get_sentinel.
C9_SentinelDownloadsThroughHelper ==
    (argSat = "sentinel" /\ InSteps("download")) =>
        /\ \A j \in DOMAIN scenes :
               \E c \in DOMAIN dlCalls :
                   /\ dlCalls[c].via = "download_product"
                   /\ dlCalls[c].scenes = <<scenes[j]>>
        /\ raisedAt # "download"

\* C9, amended: when download_scenes is enabled and the Sentinel query
\* returned scenes, get_sentinel hands all returned scenes to exactly one
\* api.download_all call; it never enters download_product; and an error
\* raised by that call escapes get_sentinel and ends the run with status 1.
\* Without the toggle or without scenes it makes no download call.
C9_SentinelBulkDownload ==
    (adapterCalls # << >> /\ Window.adapter = "get_sentinel") =>
        /\ pcDP = "idle" /\ calls = 0 /\ trace = << >>
        /\ (InSteps("download") =>
                /\ cfg.download_scenes /\ scenes # << >>
                /\ dlCalls = << [via |-> "download_all", scenes |-> scenes] >>)
        /\ (~InSteps("download") => dlCalls = << >>)
        /\ ((cfg.download_scenes /\ scenes # << >> /\ pc \in {"s_json", "s_return"})
                => InSteps("download"))
        /\ (raisedAt = "download" => Exited /\ exitStatus = 1)

C9_Witness ==
    /\ Exited /\ exitStatus = 0
    /\ argSat = "sentinel"
    /\ InSteps("download")
    /\ Len(scenes) = MaxScenes
    /\ Len(dlCalls) = 1

\* the key an adapter's metadata sync writes, and the elements it builds
OwnKey == IF argSat = "sentinel" THEN "sentinel_senes" ELSE "landsat_senes"
NewElements ==
    [j \in 1 .. Len(scenes) |->
        IF argSat = "sentinel" THEN SentinelElement(scenes[j]) ELSE LandsatElement(scenes[j])]
SyncDone == InSteps("sync") /\ raisedAt # "sync"

\* C10, as claimed: after a metadata sync every key of the document is still
\* there; every scene entry an earlier sync recorded is still in its list and
\* every other value is the same.
C10_SyncPreservesAll ==
    SyncDone =>
        \A x \in DOMAIN jsonBefore[1] :
            /\ x \in DOMAIN jsonDoc[1]
            /\ IF x \in {"sentinel_senes", "landsat_senes"}
                 THEN Range(jsonBefore[1][x]) \subseteq Range(jsonDoc[1][x])
                 ELSE jsonDoc[1][x] = jsonBefore[1][x]

\* C10, amended: a metadata sync keeps every key other than the adapter's own
\* scene list (sentinel_senes / landsat_senes) with the same value, and sets
\* that one key to exactly the elements of the newly discovered scenes, in
\* query order, replacing what an earlier sync recorded there; without a
\* completed sync the document is untouched.
C10_SyncReplacesOwnList ==
    /\ (~SyncDone => jsonDoc = jsonBefore)
    /\ (SyncDone =>
            /\ Len(jsonDoc) = Len(jsonBefore)
            /\ DOMAIN jsonDoc[1] = (DOMAIN jsonBefore[1]) \cup {OwnKey}
            /\ \A x \in (DOMAIN jsonBefore[1]) \ {OwnKey} : jsonDoc[1][x] = jsonBefore[1][x]
            /\ jsonDoc[1][OwnKey] = NewElements)

C10_Witness ==
    /\ SyncDone
    /\ argSat = "landsat"
    /\ jsonBefore = <<DocSynced>>
    /\ Len(scenes) = MaxScenes
    /\ jsonDoc[1]["landsat_senes"] = NewElements
    /\ jsonDoc[1]["sentinel_senes"] = <<SentinelElement(0)>>

----------------------------------------------------------------------------
\* The footprint builders get_footprint_poly and get_bbox
\* (optical_scenes.py:377-401).  Coordinates are floats with one decimal,
\* held as integers in tenths of a degree; strings are sequences of
\* characters.

\* Bound of the model: coordinates range over multiples of 4.5 degrees up to
\* MaxCoord of them either side of zero.
MaxCoord == 3

Coords == {45 * c : c \in (0 - MaxCoord) .. MaxCoord}
FootprintArgs == [minlon : Coords, minlat : Coords, maxlon : Coords, maxlat : Coords]

DigitChars == <<"0", "1", "2", "3", "4", "5", "6", "7", "8", "9">>

\* str() of a non-negative integer
RECURSIVE NatStr(_)
NatStr(n) ==
    IF n < 10 THEN <<DigitChars[n + 1]>>
              ELSE NatStr(n \div 10) \o <<DigitChars[(n % 10) + 1]>>

\* str() of a float with one decimal, t tenths: "13.5", "-4.5", "0.0"
Abs(t) == IF t < 0 THEN 0 - t ELSE t
FloatStr(t) ==
    (IF t < 0 THEN <<"-">> ELSE << >>)
        \o NatStr(Abs(t) \div 10) \o <<".">> \o NatStr(Abs(t) % 10)

\* lines 394-397: the WKT text, vertices written "lon lat" in the order
\* (max,max), (max,min), (min,min), (min,max), (max,max)
Mut_get_footprint_poly(minlon, minlat, maxlon, maxlat) ==
    <<"p", "o", "l", "y", "g", "o", "n", "(", "(">>
        \o FloatStr(maxlon) \o <<" ">> \o FloatStr(maxlat) \o <<",">>
        \o FloatStr(maxlon) \o <<" ">> \o FloatStr(minlat) \o <<",">>
        \o FloatStr(minlon) \o <<" ">> \o FloatStr(minlat) \o <<",">>
        \o FloatStr(minlon) \o <<" ">> \o FloatStr(maxlat) \o <<",">>
        \o FloatStr(maxlon) \o <<" ">> \o FloatStr(minlat) \o <<")", ")">>
get_footprint_poly(minlon, minlat, maxlon, maxlat) ==
    <<"p", "o", "l", "y", "g", "o", "n", "(", "(">>
        \o FloatStr(maxlon) \o <<" ">> \o FloatStr(maxlat) \o <<",">>
        \o FloatStr(maxlon) \o <<" ">> \o FloatStr(minlat) \o <<",">>
        \o FloatStr(minlon) \o <<" ">> \o FloatStr(minlat) \o <<",">>
        \o FloatStr(minlon) \o <<" ">> \o FloatStr(maxlat) \o <<",">>
        \o FloatStr(maxlon) \o <<" ">> \o FloatStr(maxlat) \o <<")", ")">>

\* lines 400-401
get_bbox(minlon, minlat, maxlon, maxlat) == <<minlon, minlat, maxlon, maxlat>>

InitFootprint ==
    /\ IdleMain
    /\ num_retries = 10
    /\ retry_wait = 120
    /\ script = << >>
    /\ i = 0
    /\ calls = 0
    /\ trace = << >>
    /\ dpLog = << >>
    /\ retval = "unset"
    /\ slept = 0
    /\ pcDP = "idle"
    /\ fpArgs \in FootprintArgs
    /\ wkt = << >>
    /\ bbox = << >>

\* a call of get_footprint_poly with the bounds
call_get_footprint_poly ==
    /\ wkt = << >>
    /\ wkt' = get_footprint_poly(fpArgs.minlon, fpArgs.minlat, fpArgs.maxlon, fpArgs.maxlat)
    /\ UNCHANGED <<fpArgs, bbox, dpVars, mainVars>>

\* a call of get_bbox with the same bounds
call_get_bbox ==
    /\ bbox = << >>
    /\ bbox' = get_bbox(fpArgs.minlon, fpArgs.minlat, fpArgs.maxlon, fpArgs.maxlat)
    /\ UNCHANGED <<fpArgs, wkt, dpVars, mainVars>>

NextFootprint ==
    \/ call_get_footprint_poly
    \/ call_get_bbox

SpecFootprint == InitFootprint /\ [][NextFootprint]_vars

----------------------------------------------------------------------------
\* Properties of the footprint builders, checked under SpecFootprint.

\* a reader of WKT polygon text: the pieces of s between separators
RECURSIVE Split(_, _)
Split(s, sep) ==
    IF \E j \in DOMAIN s : s[j] = sep
      THEN LET j == CHOOSE x \in DOMAIN s :
                        /\ s[x] = sep
                        /\ \A y \in 1 .. (x - 1) : s[y] # sep
           IN <<SubSeq(s, 1, j - 1)>> \o Split(SubSeq(s, j + 1, Len(s)), sep)
      ELSE <<s>>

DigitValue(c) == CHOOSE d \in 0 .. 9 : DigitChars[d + 1] = c

RECURSIVE ParseNat(_)
ParseNat(cs) ==
    IF cs = << >> THEN 0
    ELSE ParseNat(SubSeq(cs, 1, Len(cs) - 1)) * 10 + DigitValue(cs[Len(cs)])

\* the number a decimal literal with one fractional digit denotes, in tenths
ParseFloat(cs) ==
    LET neg == cs[1] = "-"
        body == IF neg THEN Tail(cs) ELSE cs
        parts == Split(body, ".")
        mag == ParseNat(parts[1]) * 10 + ParseNat(parts[2])
    IN IF neg THEN 0 - mag ELSE mag

IsPolygonText(s) ==
    /\ Len(s) > 11
    /\ SubSeq(s, 1, 9) = <<"p", "o", "l", "y", "g", "o", "n", "(", "(">>
    /\ SubSeq(s, Len(s) - 1, Len(s)) = <<")", ")">>

\* the ring of a WKT polygon text, as <<x, y>> vertices
ParseWKT(s) ==
    LET pts == Split(SubSeq(s, 10, Len(s) - 2), ",")
    IN [j \in DOMAIN pts |->
            LET xy == Split(pts[j], " ")
            IN <<ParseFloat(xy[1]), ParseFloat(xy[2])>>]

Min(S) == CHOOSE x \in S : \A y \in S : x <= y
Max(S) == CHOOSE x \in S : \A y \in S : y <= x

\* the bounding box (minx, miny, maxx, maxy) of a ring
BoundsOf(ring) ==
    LET xs == {ring[j][1] : j \in DOMAIN ring}
        ys == {ring[j][2] : j \in DOMAIN ring}
    IN <<Min(xs), Min(ys), Max(xs), Max(ys)>>

\* C11: for any four bounds with minlon < maxlon and minlat < maxlat, the
\* text get_footprint_poly returns reads back as a closed ring of five
\* vertices in the order (max,max), (max,min), (min,min), (min,max),
\* (max,max), and the bounding box of that ring is the tuple get_bbox returns
\* for the same bounds.
C11_FootprintMatchesBBox ==
    (wkt # << >> /\ bbox # << >>
        /\ fpArgs.minlon < fpArgs.maxlon /\ fpArgs.minlat < fpArgs.maxlat) =>
        /\ IsPolygonText(wkt)
        /\ LET ring == ParseWKT(wkt) IN
             /\ Len(ring) = 5
             /\ ring[1] = ring[5]
             /\ ring = << <<fpArgs.maxlon, fpArgs.maxlat>>, <<fpArgs.maxlon, fpArgs.minlat>>,
                          <<fpArgs.minlon, fpArgs.minlat>>, <<fpArgs.minlon, fpArgs.maxlat>>,
                          <<fpArgs.maxlon, fpArgs.maxlat>> >>
             /\ BoundsOf(ring) = bbox
             /\ bbox = <<fpArgs.minlon, fpArgs.minlat, fpArgs.maxlon, fpArgs.maxlat>>

C11_Witness ==
    /\ wkt # << >> /\ bbox # << >>
    /\ fpArgs.minlon = 0 - 135 /\ fpArgs.maxlon = 90
    /\ fpArgs.minlat = 0 - 45 /\ fpArgs.maxlat = 45
    /\ BoundsOf(ParseWKT(wkt)) = <<0 - 135, 0 - 45, 90, 45>>

----------------------------------------------------------------------------
\* Further properties of download_product, checked under SpecRetry.

TriggeredSignals == Cardinality({j \in 1 .. calls : script[j] = "triggered"})

\* C12: when an invocation of api.download raises an error other than
\* LTATriggered, the helper is left by that exception on that same attempt:
\* its last act is that invocation, it has slept only after the triggered
\* attempts before it, it has returned nothing and printed no failure
\* message, and it takes no further step.
C12_OtherErrorPropagates ==
    (calls >= 1 /\ script[calls] = "error") =>
        /\ pcDP = "raised"
        /\ trace[Len(trace)] = "download"
        /\ Sleeps = calls - 1
        /\ retval = "unset"
        /\ \A j \in DOMAIN dpLog : dpLog[j] = "retrying"
        /\ ~ENABLED NextDP

C12_Witness ==
    /\ pcDP = "raised"
    /\ calls = 2
    /\ script[1] = "triggered" /\ script[2] = "error"
    /\ num_retries = MaxRetries

\* C14: the number of sleeps equals the number of "triggered" signals
\* received (one less while the sleep for the latest signal is still to
\* come), each sleep lasting retry_wait seconds; on exhaustion with
\* num_retries = n >= 1 the helper has slept n times, the last of them after
\* the last allowed attempt and before the failure message; with
\* num_retries <= 0 api.download is never invoked and the failure message is
\* the first and only thing printed.
C14_SleepPerTriggered ==
    /\ Sleeps = (IF pcDP = "sleep" THEN TriggeredSignals - 1 ELSE TriggeredSignals)
    /\ slept = Sleeps * retry_wait
    /\ ((pcDP = "returned" /\ LastLog = "failed" /\ num_retries >= 1) =>
            /\ calls = num_retries
            /\ Sleeps = num_retries
            /\ trace[Len(trace)] = "sleep")
    /\ (num_retries <= 0 =>
            /\ calls = 0
            /\ trace = << >>
            /\ pcDP \in {"for", "returned"}
            /\ (pcDP = "returned" => dpLog = <<"failed">>))

C14_Witness ==
    /\ pcDP = "returned"
    /\ LastLog = "failed"
    /\ num_retries = MaxRetries
    /\ Sleeps = MaxRetries
    /\ slept = MaxRetries * retry_wait
    /\ trace[Len(trace)] = "sleep"

----------------------------------------------------------------------------
\* The order of an adapter's steps, checked under Spec.

StepOrder == <<"auth", "query", "export", "download", "sync", "logout">>
StepPos(x) == CHOOSE j \in DOMAIN StepOrder : StepOrder[j] = x
AdapterDone ==
    /\ adapterCalls # << >>
    /\ raisedAt = "none"
    /\ pc \in {"s_return", "l_return", "exit"}

====
